---- MODULE Spec2Model ----
(***************************************************************************)
(* A model of native/explorer/src/dataframe/io.rs: the dump / load / from  *)
(* / to entry points of the five formats (CSV, Parquet, IPC, IPC stream,   *)
(* NDJSON), the dtype-pair schema resolver, the feature-gated stubs and    *)
(* the cloud writer the *_cloud entry points hand their encoder to.        *)
(***************************************************************************)
EXTENDS Integers, Sequences, FiniteSets, TLC

VARIABLES
    features,       \* the cargo features of the build: [ndjson, aws]
    data,           \* the DataFrame behind the ExDataFrame handle `data`
    fs,             \* the local filesystem: path -> file content or NoFile
    ret,            \* the last entry-point call and what it returned
    pc,             \* where the running *_cloud call stands ("idle": none running)
    cw,             \* the CloudWriter of the running *_cloud call
    calls,          \* the object-store calls made by that CloudWriter, in order
    pairs,          \* the argument last given to schema_from_dtypes_pairs
    schema_result,  \* what schema_from_dtypes_pairs returned for it
    entry,          \* the argument last given to build_aws_s3_cloud_writer
    built           \* what build_aws_s3_cloud_writer returned for it

vars == <<features, data, fs, ret, pc, cw, calls, pairs, schema_result, entry, built>>

-----------------------------------------------------------------------------
(* Bounds of the model. *)

MaxPairs == 3
MaxBytes == 4
PartSize == 2

-----------------------------------------------------------------------------
(* Strings and results. *)

\* Rust's str::contains: `needle` occurs in `text` as a contiguous substring.
Contains(text, needle) ==
    \E i \in 1..(Len(text) - Len(needle) + 1) :
        SubSeq(text, i, i + Len(needle) - 1) = needle

NoValue == "<no value>"

\* Result::Ok(v) and Result::Err(ExplorerError::<kind>(msg)).
Ok(v) == [ok |-> TRUE, kind |-> "", msg |-> "", val |-> v]

Err(kind, msg) == [ok |-> FALSE, kind |-> kind, msg |-> msg, val |-> NoValue]

\* The unit value (): a record, as every value a call returns is.
Unit == [unit |-> "()"]

\* Option<T>
None == [some |-> FALSE, v |-> ""]

Some(v) == [some |-> TRUE, v |-> v]

-----------------------------------------------------------------------------
(* SchemaResolver: dtype_from_str and schema_from_dtypes_pairs. *)

dtype_from_str(dtype) ==
    CASE dtype = "binary"       -> Ok("Binary")
      [] dtype = "bool"         -> Ok("Boolean")
      [] dtype = "cat"          -> Ok("Categorical")
      [] dtype = "date"         -> Ok("Date")
      [] dtype = "datetime[ms]" -> Ok("Datetime(Milliseconds)")
      [] dtype = "datetime[ns]" -> Ok("Datetime(Nanoseconds)")
      [] dtype = "datetime[μs]" -> Ok("Datetime(Microseconds)")
      [] dtype = "f64"          -> Ok("Float64")
      [] dtype = "i64"          -> Ok("Int64")
      [] dtype = "str"          -> Ok("Utf8")
      [] OTHER                  -> Err("Internal", "Unrecognised datatype")

\* The type names dtype_from_str has an arm for.
RecognisedTypeNames ==
    {"binary", "bool", "cat", "date", "datetime[ms]", "datetime[ns]",
     "datetime[μs]", "f64", "i64", "str"}

\* Schema::with_column on the insertion-ordered map: a new name is appended,
\* a name already present keeps its slot and has its dtype replaced.
with_column_first_wins(schema, name, dtype) ==
    IF \E i \in 1..Len(schema) : schema[i].name = name
    THEN schema
    ELSE Append(schema, [name |-> name, dtype |-> dtype])

with_column(schema, name, dtype) ==
    IF \E i \in 1..Len(schema) : schema[i].name = name
    THEN [i \in 1..Len(schema) |->
            IF schema[i].name = name
            THEN [name |-> name, dtype |-> dtype]
            ELSE schema[i]]
    ELSE Append(schema, [name |-> name, dtype |-> dtype])

\* The for loop of schema_from_dtypes_pairs: `?` returns the first error.
RECURSIVE schema_loop(_, _)
schema_loop(schema, dtypes) ==
    IF dtypes = <<>>
    THEN Ok(schema)
    ELSE LET dtype == dtype_from_str(Head(dtypes).dtype)
         IN  IF ~dtype.ok
             THEN dtype
             ELSE schema_loop(with_column(schema, Head(dtypes).name, dtype.val),
                              Tail(dtypes))

schema_from_dtypes_pairs(dtypes) == schema_loop(<<>>, dtypes)

-----------------------------------------------------------------------------
(* Cargo features and the #[cfg]-gated definitions of the entry points. *)

CfgHolds(cfg, f) ==
    CASE cfg = "always"                 -> TRUE
      [] cfg = "ndjson"                 -> f.ndjson
      [] cfg = "not(ndjson)"            -> ~f.ndjson
      [] cfg = "aws"                    -> f.aws
      [] cfg = "not(aws)"               -> ~f.aws
      [] cfg = "all(ndjson, aws)"       -> f.ndjson /\ f.aws
      [] cfg = "not(any(ndjson, aws))"  -> ~(f.ndjson \/ f.aws)

Def(name, line, cfg, stub) == [name |-> name, line |-> line, cfg |-> cfg, stub |-> stub]

\* Every `pub fn df_*` of io.rs with the line of its `pub fn` and the #[cfg]
\* attribute above it; stub: the body only returns the feature-disabled error.
Definitions ==
    { Def("df_from_csv",             42, "always", FALSE),
      Def("df_to_csv",              107, "always", FALSE),
      Def("df_to_csv_cloud",        124, "aws", FALSE),
      Def("df_dump_csv",            140, "always", FALSE),
      Def("df_load_csv",            161, "always", FALSE),
      Def("df_from_parquet",        205, "always", FALSE),
      Def("df_to_parquet",          223, "always", FALSE),
      Def("df_to_parquet_cloud",    241, "aws", FALSE),
      Def("df_dump_parquet",        297, "always", FALSE),
      Def("df_load_parquet",        317, "always", FALSE),
      Def("df_from_ipc",            327, "always", FALSE),
      Def("df_to_ipc",              342, "always", FALSE),
      Def("df_to_ipc_cloud",        362, "aws", FALSE),
      Def("df_dump_ipc",            381, "always", FALSE),
      Def("df_load_ipc",            404, "always", FALSE),
      Def("df_from_ipc_stream",     430, "always", FALSE),
      Def("df_to_ipc_stream",       445, "always", FALSE),
      Def("df_to_ipc_stream_cloud", 464, "aws", FALSE),
      Def("df_dump_ipc_stream",     483, "always", FALSE),
      Def("df_load_ipc_stream",     506, "always", FALSE),
      Def("df_from_ndjson",         533, "ndjson", FALSE),
      Def("df_to_ndjson",           550, "ndjson", FALSE),
      Def("df_to_ndjson_cloud",     562, "all(ndjson, aws)", FALSE),
      Def("df_dump_ndjson",         573, "ndjson", FALSE),
      Def("df_load_ndjson",         588, "ndjson", FALSE),
      Def("df_from_ndjson",         606, "not(ndjson)", TRUE),
      Def("df_to_ndjson",           620, "not(ndjson)", TRUE),
      Def("df_dump_ndjson",         630, "not(ndjson)", TRUE),
      Def("df_load_ndjson",         640, "not(ndjson)", TRUE),
      Def("df_to_parquet_cloud",    654, "not(aws)", TRUE),
      Def("df_to_csv_cloud",        668, "not(aws)", TRUE),
      Def("df_to_ipc_cloud",        683, "not(aws)", TRUE),
      Def("df_to_ipc_stream_cloud", 697, "not(aws)", TRUE),
      Def("df_to_ndjson_cloud",     711, "not(any(ndjson, aws))", TRUE) }

\* The definitions of `name` the build with features f compiles.
Compiled(name, f) == {d \in Definitions : d.name = name /\ CfgHolds(d.cfg, f)}

\* A function can be called when the build defines it (exactly once: a second
\* definition of the same name does not compile).
Callable(name) == Cardinality(Compiled(name, features)) = 1

IsStub(name) == \A d \in Compiled(name, features) : d.stub

FeatureTail ==
    "This is mostly due to this feature being incompatible with your computer's architecture. "
    \o "Please read the section about precompilation in our README.md: "
    \o "https://github.com/elixir-explorer/explorer#precompilation"

NdjsonDisabledMsg ==
    "Explorer was compiled without the \"ndjson\" feature enabled. " \o FeatureTail

AwsDisabledMsg ==
    "Explorer was compiled without the \"aws\" feature enabled. " \o FeatureTail

AwsNdjsonDisabledMsg ==
    "Explorer was compiled without the \"aws\" and \"ndjson\" features enabled. "
    \o "This is mostly due to these feature being incompatible with your computer's architecture. "
    \o "Please read the section about precompilation in our README.md: "
    \o "https://github.com/elixir-explorer/explorer#precompilation"

-----------------------------------------------------------------------------
(* Dataframes, files and bytes. *)

Col(name, dtype) == [name |-> name, dtype |-> dtype]

\* A DataFrame: its columns in order and the number of chunks they are held in.
Frames ==
    { [cols |-> <<Col("x", "Int32"), Col("y", "Float64"), Col("z", "Utf8")>>,
       chunks |-> 2] }

\* Columns as foreign writers leave them in a binary file: any numeric width.
RawCols == <<Col("x", "Int32"), Col("y", "Float32"), Col("z", "Utf8")>>

NumericDTypes ==
    {"Int8", "Int16", "Int32", "Int64", "UInt8", "UInt16", "UInt32", "UInt64",
     "Float32", "Float64"}

Formats == {"csv", "parquet", "ipc", "ipc_stream", "ndjson"}

TextFormats == {"csv", "ndjson"}

\* File contents and binaries: the format of the bytes, the compression they
\* were written with and the columns they hold.
Bytes(fmt, comp, cols) == [fmt |-> fmt, comp |-> comp, cols |-> cols]

NoFile == Bytes("<absent>", "", <<>>)

EmptyFile == Bytes("<empty>", "", <<>>)

\* "nodir/b.out" lies in a directory that does not exist: File::create and
\* File::open fail on it.
Paths == {"a.out", "nodir/b.out"}

DirExists(path) == path = "a.out"

\* What a text format keeps of a column's dtype, and what its reader infers.
TextKind(dtype) ==
    CASE dtype \in {"Float32", "Float64"}              -> "float"
      [] dtype \in NumericDTypes \ {"Float32", "Float64"} -> "int"
      [] dtype = "Boolean"                             -> "bool"
      [] OTHER                                         -> "str"

InferDType(kind) ==
    CASE kind = "float" -> "Float64"
      [] kind = "int"   -> "Int64"
      [] kind = "bool"  -> "Boolean"
      [] OTHER          -> "Utf8"

\* The bytes a format's writer produces for a frame.
Encode(fmt, comp, frame) ==
    Bytes(fmt, comp,
          IF fmt \in TextFormats
          THEN [i \in 1..Len(frame.cols) |->
                    Col(frame.cols[i].name, TextKind(frame.cols[i].dtype))]
          ELSE frame.cols)

\* reader.finish() of a format's reader over bytes: a decode error when the
\* bytes are not of the format, else the frame they hold (text formats infer
\* each column's dtype; `schema` overrides the dtype of the columns it names).
PolarsError == Err("Polars", "reader or writer failed")

SchemaDType(schema, name, dtype) ==
    IF \E i \in 1..Len(schema) : schema[i].name = name
    THEN (CHOOSE e \in {schema[i] : i \in 1..Len(schema)} : e.name = name).dtype
    ELSE dtype

ReaderFinish(fmt, bytes, schema) ==
    IF bytes.fmt # fmt
    THEN PolarsError
    ELSE Ok([cols |-> [i \in 1..Len(bytes.cols) |->
                        Col(bytes.cols[i].name,
                            SchemaDType(schema, bytes.cols[i].name,
                                        IF fmt \in TextFormats
                                        THEN InferDType(bytes.cols[i].dtype)
                                        ELSE bytes.cols[i].dtype))],
             chunks |-> 1])

\* TypeNormalizer: every integer column becomes Int64, every float column
\* Float64; the other columns are left as they are.
normalize_numeric_dtypes(df) ==
    [df EXCEPT !.cols = [i \in 1..Len(df.cols) |->
        Col(df.cols[i].name,
            IF df.cols[i].dtype \in {"Float32", "Float64"} THEN "Float64"
            ELSE IF df.cols[i].dtype \in NumericDTypes THEN "Int64"
            ELSE df.cols[i].dtype)]]

\* finish_reader: reader.finish()?, normalize_numeric_dtypes(&mut df)?, Ok.
\* `normalized` counts the passes of the normalizer over the returned frame.
finish_reader_unnormalized(reader, norm_ok) ==
    [res |-> reader, normalized |-> 0]

finish_reader(reader, norm_ok) ==
    IF ~reader.ok
    THEN [res |-> reader, normalized |-> 0]
    ELSE IF ~norm_ok
         THEN [res |-> PolarsError, normalized |-> 0]
         ELSE [res |-> Ok(normalize_numeric_dtypes(reader.val)), normalized |-> 1]

\* writer.finish(&mut data.clone()): the encoder is handed a copy, which it
\* rechunks into one chunk before writing; `handle` is the frame behind the
\* caller's handle afterwards, `written` the frame the encoder wrote.
as_single_chunk(df) == [df EXCEPT !.chunks = 1]

finish_in_place(df) ==
    [handle |-> as_single_chunk(df), written |-> as_single_chunk(df)]

finish_on_clone(df) ==
    [handle |-> df, written |-> as_single_chunk(df)]

-----------------------------------------------------------------------------
(* Compression options. *)

decode_ipc_compression_fallback(compression) ==
    CASE compression = "lz4"  -> Ok("IpcCompression::LZ4")
      [] compression = "zstd" -> Ok("IpcCompression::ZSTD")
      [] OTHER                -> Ok("None")

decode_ipc_compression(compression) ==
    CASE compression = "lz4"  -> Ok("IpcCompression::LZ4")
      [] compression = "zstd" -> Ok("IpcCompression::ZSTD")
      [] OTHER -> Err("Other", "the algorithm " \o compression
                               \o " is not supported for IPC compression")

decode_ipc_stream_compression(compression) ==
    CASE compression = "lz4"  -> Ok("IpcStreamCompression::LZ4")
      [] compression = "zstd" -> Ok("IpcStreamCompression::ZSTD")
      [] OTHER -> Err("Other", "the algorithm " \o compression
                               \o " is not supported for IPC stream compression")

\* match compression { Some(algo) => Some(decode(algo)?), None => None }
ipc_compression_option(compression) ==
    IF compression.some THEN decode_ipc_compression(compression.v) ELSE Ok("None")

ipc_stream_compression_option(compression) ==
    IF compression.some THEN decode_ipc_stream_compression(compression.v) ELSE Ok("None")

\* The names a caller may pass as the IPC `compression` argument.
CompressionArgs == {None, Some("lz4"), Some("zstd"), Some("gzip"), Some("none")}

\* ExParquetCompression values and ParquetCompression::try_from over them:
\* an algorithm with a level fails when the level is out of range.
ParquetArgs ==
    { [algo |-> "Uncompressed", level_ok |-> TRUE],
      [algo |-> "Zstd", level_ok |-> TRUE],
      [algo |-> "Zstd", level_ok |-> FALSE] }

parquet_compression_try_from(ex_compression) ==
    IF ex_compression.level_ok
    THEN Ok("ParquetCompression::" \o ex_compression.algo)
    ELSE Err("Other", "invalid compression level")

ParquetArgName(ex_compression) ==
    Some(ex_compression.algo \o (IF ex_compression.level_ok THEN "" ELSE "(bad level)"))

-----------------------------------------------------------------------------
(* The cloud writer. *)

\* ExS3Entry values: the object key and the config's optional bucket and
\* token; a malformed endpoint makes AmazonS3Builder::build fail.
S3Entries ==
    { [key |-> "k.out", bucket |-> b, token |-> t, endpoint |-> "http://localhost:9000"] :
        b \in {None, Some("my-bucket")}, t \in {None, Some("session-token")} }
    \cup { [key |-> "k.out", bucket |-> None, token |-> None, endpoint |-> "not a url"] }

object_store_to_explorer_error(error) ==
    Err("Other", "Internal ObjectStore error: #" \o error)

\* CloudWriter::new(object_store, path): nothing buffered, no upload started.
CloudWriter_new(object_store, path) ==
    [store |-> object_store, path |-> path, started |-> FALSE, upload_id |-> "",
     written |-> 0, buffer |-> 0, parts |-> <<>>, inflight |-> 0,
     finalizing |-> FALSE, err |-> Ok(Unit)]

NoWriter == CloudWriter_new("<none>", "")

\* AmazonS3Builder::build without a bucket name fails.
build_aws_s3_cloud_writer_no_placeholder(ex_entry) ==
    IF ~ex_entry.bucket.some
    THEN object_store_to_explorer_error("Generic { store: S3, source: MissingBucketName }")
    ELSE IF ex_entry.endpoint = "not a url"
    THEN object_store_to_explorer_error("Generic { store: S3, source: UnableToParseUrl }")
    ELSE Ok(CloudWriter_new([allow_http |-> TRUE,
                             endpoint |-> ex_entry.endpoint,
                             bucket_name |-> ex_entry.bucket.v,
                             virtual_hosted_style_request |-> FALSE,
                             token |-> ex_entry.token],
                            ex_entry.key))

build_aws_s3_cloud_writer(ex_entry) ==
    LET aws_builder ==
            [allow_http |-> TRUE,
             endpoint |-> ex_entry.endpoint,
             bucket_name |-> IF ex_entry.bucket.some
                             THEN ex_entry.bucket.v
                             ELSE "explorer-default-bucket-name",
             virtual_hosted_style_request |-> ~ex_entry.bucket.some,
             token |-> ex_entry.token]
    IN  IF ex_entry.endpoint = "not a url"
        THEN object_store_to_explorer_error("Generic { store: S3, source: UnableToParseUrl }")
        ELSE Ok(CloudWriter_new(aws_builder, ex_entry.key))

\* Object-store calls, as logged in `calls`.
StoreCall(op, id, num, size, tags, ok) ==
    [op |-> op, id |-> id, num |-> num, size |-> size, tags |-> tags, ok |-> ok]

RECURSIVE SumSizes(_)
SumSizes(parts) == IF parts = <<>> THEN 0 ELSE Head(parts).size + SumSizes(Tail(parts))

\* Bytes written to the writer so far.
TotalWritten(w) == w.written

\* write(bytes): the bytes are appended to the buffer.
cw_append(w, k) == [w EXCEPT !.buffer = @ + k, !.written = @ + k]

\* The flush trigger: the buffer has reached the part-size threshold.
needs_flush_above_threshold(w) == w.buffer > PartSize

needs_flush(w) == w.buffer >= PartSize

\* The buffer leaves as one numbered part: the next number in session order.
cw_issue_part(w) == [w EXCEPT !.inflight = Len(w.parts) + 1, !.buffer = 0]

\* The part's tag is recorded in session order.
cw_record_tag_first(w, size) ==
    [w EXCEPT !.parts = <<[num |-> w.inflight, size |-> size]>> \o @, !.inflight = 0]

cw_record_tag(w, size) ==
    [w EXCEPT !.parts = Append(@, [num |-> w.inflight, size |-> size]), !.inflight = 0]

\* The error a failed cloud write returns: the failure that started the abort,
\* whatever the abort call itself returned.
StoreError(what) == Err("ObjectStore", what \o " failed")

abort_result_of_abort(original, abort_ok) ==
    IF abort_ok THEN original ELSE StoreError("abort_multipart")

abort_result(original, abort_ok) == original

\* The first write starts the multipart upload and keeps its upload id.
cw_start(w) == [w EXCEPT !.started = TRUE, !.upload_id = "upload:" \o w.path]

\* The part tags the completion call lists.
completion_tags(w) == w.parts

-----------------------------------------------------------------------------
(* The entry points. Each call is one blocking operation; `ret` records the  *)
(* call, the option it was given (arg), what the option resolved to (used),  *)
(* the Result returned (res), the file operations it made (io) and the       *)
(* number of normalizer passes over a returned frame (normalized).           *)

Returns(call, arg, used, res, io, n) ==
    ret' = [call |-> call, arg |-> arg, used |-> used, res |-> res,
            io |-> io, normalized |-> n]

NoCall == [call |-> "<none>", arg |-> None, used |-> "", res |-> Ok(Unit),
           io |-> <<>>, normalized |-> 0]

IoError == Err("Io", "No such file or directory (os error 2)")

\* Inputs of the calls.
CsvOptions ==
    { [dtypes |-> <<>>, encoding |-> "utf8"],
      [dtypes |-> <<>>, encoding |-> "latin1"],
      [dtypes |-> <<Col("x", "f64")>>, encoding |-> "utf8-lossy"],
      [dtypes |-> <<Col("x", "frobnicate")>>, encoding |-> "utf8"] }

\* The binaries given to a load of format fmt: bytes of that format holding
\* raw columns, and bytes that are not of that format.
Garbage == Bytes("<garbage>", "", <<>>)

Binaries(fmt) == {Encode(fmt, "None", [cols |-> RawCols, chunks |-> 1]), Garbage}

InitialFiles == {NoFile}

Idle(name) == pc = "idle" /\ Callable(name)

\* No CloudWriter belongs to a call that is not a cloud write.
NoCloud == pc' = "idle" /\ cw' = NoWriter /\ calls' = <<>>

Frozen == UNCHANGED <<features, pairs, schema_result, entry, built>>

csv_encoding(encoding) ==
    IF encoding = "utf8-lossy" THEN "CsvEncoding::LossyUtf8" ELSE "CsvEncoding::Utf8"

\* ============ CSV ============ 

df_from_csv ==
    /\ Idle("df_from_csv")
    /\ \E filename \in Paths, opts \in CsvOptions, norm_ok \in BOOLEAN :
        LET dtypes == opts.dtypes
            enc == opts.encoding
            encoding == csv_encoding(enc)
            schema == schema_from_dtypes_pairs(dtypes)
            r == finish_reader(ReaderFinish("csv", fs[filename], schema.val), norm_ok)
        IN  IF fs[filename] = NoFile
            THEN Returns("df_from_csv", Some(enc), encoding, IoError, <<"open">>, 0)
            ELSE IF ~schema.ok
            THEN Returns("df_from_csv", Some(enc), encoding, schema, <<"open">>, 0)
            ELSE Returns("df_from_csv", Some(enc), encoding, r.res, <<"open", "read">>,
                         r.normalized)
    /\ UNCHANGED <<data, fs>> /\ NoCloud /\ Frozen

df_to_csv ==
    /\ Idle("df_to_csv")
    /\ \E filename \in Paths, enc_ok \in BOOLEAN :
        LET f == finish_on_clone(data)
        IN  IF ~DirExists(filename)
            THEN /\ Returns("df_to_csv", None, "", IoError, <<"create">>, 0)
                 /\ UNCHANGED <<data, fs>>
            ELSE IF ~enc_ok
            THEN /\ Returns("df_to_csv", None, "", PolarsError, <<"create">>, 0)
                 /\ fs' = [fs EXCEPT ![filename] = EmptyFile]
                 /\ data' = f.handle
            ELSE /\ Returns("df_to_csv", None, "", Ok(Unit), <<"create", "write">>, 0)
                 /\ fs' = [fs EXCEPT ![filename] = Encode("csv", "None", f.written)]
                 /\ data' = f.handle
    /\ NoCloud /\ Frozen

df_dump_csv ==
    /\ Idle("df_dump_csv")
    /\ \E enc_ok \in BOOLEAN :
        LET f == finish_on_clone(data)
        IN  /\ IF ~enc_ok
               THEN Returns("df_dump_csv", None, "", PolarsError, <<>>, 0)
               ELSE Returns("df_dump_csv", None, "",
                            Ok(Encode("csv", "None", f.written)), <<>>, 0)
            /\ data' = f.handle
    /\ UNCHANGED fs /\ NoCloud /\ Frozen

df_load_csv ==
    /\ Idle("df_load_csv")
    /\ \E binary \in Binaries("csv"), opts \in CsvOptions, norm_ok \in BOOLEAN :
        LET dtypes == opts.dtypes
            enc == opts.encoding
            encoding == csv_encoding(enc)
            schema == schema_from_dtypes_pairs(dtypes)
            r == finish_reader(ReaderFinish("csv", binary, schema.val), norm_ok)
        IN  IF ~schema.ok
            THEN Returns("df_load_csv", Some(enc), encoding, schema, <<>>, 0)
            ELSE Returns("df_load_csv", Some(enc), encoding, r.res, <<>>, r.normalized)
    /\ UNCHANGED <<data, fs>> /\ NoCloud /\ Frozen

\* ============ Parquet ============ 

df_from_parquet ==
    /\ Idle("df_from_parquet")
    /\ \E filename \in Paths, norm_ok \in BOOLEAN :
        LET r == finish_reader(ReaderFinish("parquet", fs[filename], <<>>), norm_ok)
        IN  IF fs[filename] = NoFile
            THEN Returns("df_from_parquet", None, "", IoError, <<"open">>, 0)
            ELSE Returns("df_from_parquet", None, "", r.res, <<"open", "read">>,
                         r.normalized)
    /\ UNCHANGED <<data, fs>> /\ NoCloud /\ Frozen

df_to_parquet ==
    /\ Idle("df_to_parquet")
    /\ \E filename \in Paths, ex_compression \in ParquetArgs, enc_ok \in BOOLEAN :
        LET f == finish_on_clone(data)
            arg == ParquetArgName(ex_compression)
            compression == parquet_compression_try_from(ex_compression)
        IN  IF ~DirExists(filename)
            THEN /\ Returns("df_to_parquet", arg, "", IoError, <<"create">>, 0)
                 /\ UNCHANGED <<data, fs>>
            ELSE IF ~compression.ok
            THEN /\ Returns("df_to_parquet", arg, "", compression, <<"create">>, 0)
                 /\ fs' = [fs EXCEPT ![filename] = EmptyFile]
                 /\ UNCHANGED data
            ELSE IF ~enc_ok
            THEN /\ Returns("df_to_parquet", arg, compression.val, PolarsError,
                            <<"create">>, 0)
                 /\ fs' = [fs EXCEPT ![filename] = EmptyFile]
                 /\ data' = f.handle
            ELSE /\ Returns("df_to_parquet", arg, compression.val, Ok(Unit),
                            <<"create", "write">>, 0)
                 /\ fs' = [fs EXCEPT ![filename] =
                                Encode("parquet", compression.val, f.written)]
                 /\ data' = f.handle
    /\ NoCloud /\ Frozen

df_dump_parquet ==
    /\ Idle("df_dump_parquet")
    /\ \E ex_compression \in ParquetArgs, enc_ok \in BOOLEAN :
        LET f == finish_on_clone(data)
            arg == ParquetArgName(ex_compression)
            compression == parquet_compression_try_from(ex_compression)
        IN  IF ~compression.ok
            THEN /\ Returns("df_dump_parquet", arg, "", compression, <<>>, 0)
                 /\ UNCHANGED data
            ELSE IF ~enc_ok
            THEN /\ Returns("df_dump_parquet", arg, compression.val, PolarsError, <<>>, 0)
                 /\ data' = f.handle
            ELSE /\ Returns("df_dump_parquet", arg, compression.val,
                            Ok(Encode("parquet", compression.val, f.written)), <<>>, 0)
                 /\ data' = f.handle
    /\ UNCHANGED fs /\ NoCloud /\ Frozen

df_load_parquet ==
    /\ Idle("df_load_parquet")
    /\ \E binary \in Binaries("parquet"), norm_ok \in BOOLEAN :
        LET r == finish_reader(ReaderFinish("parquet", binary, <<>>), norm_ok)
        IN  Returns("df_load_parquet", None, "", r.res, <<>>, r.normalized)
    /\ UNCHANGED <<data, fs>> /\ NoCloud /\ Frozen

\* ============ IPC ============ 

df_from_ipc ==
    /\ Idle("df_from_ipc")
    /\ \E filename \in Paths, norm_ok \in BOOLEAN :
        LET r == finish_reader(ReaderFinish("ipc", fs[filename], <<>>), norm_ok)
        IN  IF fs[filename] = NoFile
            THEN Returns("df_from_ipc", None, "", IoError, <<"open">>, 0)
            ELSE Returns("df_from_ipc", None, "", r.res, <<"open", "read">>,
                         r.normalized)
    /\ UNCHANGED <<data, fs>> /\ NoCloud /\ Frozen

df_to_ipc ==
    /\ Idle("df_to_ipc")
    /\ \E filename \in Paths, arg \in CompressionArgs, enc_ok \in BOOLEAN :
        LET f == finish_on_clone(data)
            compression == ipc_compression_option(arg)
        IN  IF ~compression.ok
            THEN /\ Returns("df_to_ipc", arg, "", compression, <<>>, 0)
                 /\ UNCHANGED <<data, fs>>
            ELSE IF ~DirExists(filename)
            THEN /\ Returns("df_to_ipc", arg, compression.val, IoError, <<"create">>, 0)
                 /\ UNCHANGED <<data, fs>>
            ELSE IF ~enc_ok
            THEN /\ Returns("df_to_ipc", arg, compression.val, PolarsError,
                            <<"create">>, 0)
                 /\ fs' = [fs EXCEPT ![filename] = EmptyFile]
                 /\ data' = f.handle
            ELSE /\ Returns("df_to_ipc", arg, compression.val, Ok(Unit),
                            <<"create", "write">>, 0)
                 /\ fs' = [fs EXCEPT ![filename] =
                                Encode("ipc", compression.val, f.written)]
                 /\ data' = f.handle
    /\ NoCloud /\ Frozen

df_dump_ipc ==
    /\ Idle("df_dump_ipc")
    /\ \E arg \in CompressionArgs, enc_ok \in BOOLEAN :
        LET f == finish_on_clone(data)
            compression == ipc_compression_option(arg)
        IN  IF ~compression.ok
            THEN /\ Returns("df_dump_ipc", arg, "", compression, <<>>, 0)
                 /\ UNCHANGED data
            ELSE IF ~enc_ok
            THEN /\ Returns("df_dump_ipc", arg, compression.val, PolarsError, <<>>, 0)
                 /\ data' = f.handle
            ELSE /\ Returns("df_dump_ipc", arg, compression.val,
                            Ok(Encode("ipc", compression.val, f.written)), <<>>, 0)
                 /\ data' = f.handle
    /\ UNCHANGED fs /\ NoCloud /\ Frozen

df_load_ipc ==
    /\ Idle("df_load_ipc")
    /\ \E binary \in Binaries("ipc"), norm_ok \in BOOLEAN :
        LET r == finish_reader(ReaderFinish("ipc", binary, <<>>), norm_ok)
        IN  Returns("df_load_ipc", None, "", r.res, <<>>, r.normalized)
    /\ UNCHANGED <<data, fs>> /\ NoCloud /\ Frozen

\* ============ IPC Streaming ============ 

df_from_ipc_stream ==
    /\ Idle("df_from_ipc_stream")
    /\ \E filename \in Paths, norm_ok \in BOOLEAN :
        LET r == finish_reader(ReaderFinish("ipc_stream", fs[filename], <<>>), norm_ok)
        IN  IF fs[filename] = NoFile
            THEN Returns("df_from_ipc_stream", None, "", IoError, <<"open">>, 0)
            ELSE Returns("df_from_ipc_stream", None, "", r.res, <<"open", "read">>,
                         r.normalized)
    /\ UNCHANGED <<data, fs>> /\ NoCloud /\ Frozen

df_to_ipc_stream ==
    /\ Idle("df_to_ipc_stream")
    /\ \E filename \in Paths, arg \in CompressionArgs, enc_ok \in BOOLEAN :
        LET f == finish_on_clone(data)
            compression == ipc_stream_compression_option(arg)
        IN  IF ~compression.ok
            THEN /\ Returns("df_to_ipc_stream", arg, "", compression, <<>>, 0)
                 /\ UNCHANGED <<data, fs>>
            ELSE IF ~DirExists(filename)
            THEN /\ Returns("df_to_ipc_stream", arg, compression.val, IoError, <<"create">>, 0)
                 /\ UNCHANGED <<data, fs>>
            ELSE IF ~enc_ok
            THEN /\ Returns("df_to_ipc_stream", arg, compression.val, PolarsError,
                            <<"create">>, 0)
                 /\ fs' = [fs EXCEPT ![filename] = EmptyFile]
                 /\ data' = f.handle
            ELSE /\ Returns("df_to_ipc_stream", arg, compression.val, Ok(Unit),
                            <<"create", "write">>, 0)
                 /\ fs' = [fs EXCEPT ![filename] =
                                Encode("ipc_stream", compression.val, f.written)]
                 /\ data' = f.handle
    /\ NoCloud /\ Frozen

df_dump_ipc_stream ==
    /\ Idle("df_dump_ipc_stream")
    /\ \E arg \in CompressionArgs, enc_ok \in BOOLEAN :
        LET f == finish_on_clone(data)
            compression == ipc_stream_compression_option(arg)
        IN  IF ~compression.ok
            THEN /\ Returns("df_dump_ipc_stream", arg, "", compression, <<>>, 0)
                 /\ UNCHANGED data
            ELSE IF ~enc_ok
            THEN /\ Returns("df_dump_ipc_stream", arg, compression.val, PolarsError, <<>>, 0)
                 /\ data' = f.handle
            ELSE /\ Returns("df_dump_ipc_stream", arg, compression.val,
                            Ok(Encode("ipc_stream", compression.val, f.written)), <<>>, 0)
                 /\ data' = f.handle
    /\ UNCHANGED fs /\ NoCloud /\ Frozen

df_load_ipc_stream ==
    /\ Idle("df_load_ipc_stream")
    /\ \E binary \in Binaries("ipc_stream"), norm_ok \in BOOLEAN :
        LET r == finish_reader(ReaderFinish("ipc_stream", binary, <<>>), norm_ok)
        IN  Returns("df_load_ipc_stream", None, "", r.res, <<>>, r.normalized)
    /\ UNCHANGED <<data, fs>> /\ NoCloud /\ Frozen

\* ============ NDJSON ============ 
\* With the "ndjson" feature the body is the reader or writer; without it the
\* body is the stub of lines 604-650.

NdjsonDisabled == Err("Other", NdjsonDisabledMsg)

df_from_ndjson_stub_opens_file ==
    /\ Idle("df_from_ndjson")
    /\ \E filename \in Paths, norm_ok \in BOOLEAN :
        LET r == finish_reader(ReaderFinish("ndjson", fs[filename], <<>>), norm_ok)
        IN  IF IsStub("df_from_ndjson")
            THEN Returns("df_from_ndjson", None, "", NdjsonDisabled, <<"open">>, 0)
            ELSE IF fs[filename] = NoFile
            THEN Returns("df_from_ndjson", None, "", IoError, <<"open">>, 0)
            ELSE Returns("df_from_ndjson", None, "", r.res, <<"open", "read">>,
                         r.normalized)
    /\ UNCHANGED <<data, fs>> /\ NoCloud /\ Frozen

df_from_ndjson ==
    /\ Idle("df_from_ndjson")
    /\ \E filename \in Paths, norm_ok \in BOOLEAN :
        LET r == finish_reader(ReaderFinish("ndjson", fs[filename], <<>>), norm_ok)
        IN  IF IsStub("df_from_ndjson")
            THEN Returns("df_from_ndjson", None, "", NdjsonDisabled, <<>>, 0)
            ELSE IF fs[filename] = NoFile
            THEN Returns("df_from_ndjson", None, "", IoError, <<"open">>, 0)
            ELSE Returns("df_from_ndjson", None, "", r.res, <<"open", "read">>,
                         r.normalized)
    /\ UNCHANGED <<data, fs>> /\ NoCloud /\ Frozen

df_to_ndjson ==
    /\ Idle("df_to_ndjson")
    /\ \E filename \in Paths, enc_ok \in BOOLEAN :
        LET f == finish_on_clone(data)
        IN  IF IsStub("df_to_ndjson")
            THEN /\ Returns("df_to_ndjson", None, "", NdjsonDisabled, <<>>, 0)
                 /\ UNCHANGED <<data, fs>>
            ELSE IF ~DirExists(filename)
            THEN /\ Returns("df_to_ndjson", None, "", IoError, <<"create">>, 0)
                 /\ UNCHANGED <<data, fs>>
            ELSE IF ~enc_ok
            THEN /\ Returns("df_to_ndjson", None, "", PolarsError, <<"create">>, 0)
                 /\ fs' = [fs EXCEPT ![filename] = EmptyFile]
                 /\ data' = f.handle
            ELSE /\ Returns("df_to_ndjson", None, "", Ok(Unit), <<"create", "write">>, 0)
                 /\ fs' = [fs EXCEPT ![filename] = Encode("ndjson", "None", f.written)]
                 /\ data' = f.handle
    /\ NoCloud /\ Frozen

df_dump_ndjson ==
    /\ Idle("df_dump_ndjson")
    /\ \E enc_ok \in BOOLEAN :
        LET f == finish_on_clone(data)
        IN  IF IsStub("df_dump_ndjson")
            THEN /\ Returns("df_dump_ndjson", None, "", NdjsonDisabled, <<>>, 0)
                 /\ UNCHANGED data
            ELSE IF ~enc_ok
            THEN /\ Returns("df_dump_ndjson", None, "", PolarsError, <<>>, 0)
                 /\ data' = f.handle
            ELSE /\ Returns("df_dump_ndjson", None, "",
                            Ok(Encode("ndjson", "None", f.written)), <<>>, 0)
                 /\ data' = f.handle
    /\ UNCHANGED fs /\ NoCloud /\ Frozen

df_load_ndjson ==
    /\ Idle("df_load_ndjson")
    /\ \E binary \in Binaries("ndjson"), norm_ok \in BOOLEAN :
        LET r == finish_reader(ReaderFinish("ndjson", binary, <<>>), norm_ok)
        IN  IF IsStub("df_load_ndjson")
            THEN Returns("df_load_ndjson", None, "", NdjsonDisabled, <<>>, 0)
            ELSE Returns("df_load_ndjson", None, "", r.res, <<>>, r.normalized)
    /\ UNCHANGED <<data, fs>> /\ NoCloud /\ Frozen

-----------------------------------------------------------------------------
(* The cloud write entry points and the steps of a running cloud write. *)

Running == [ok |-> FALSE, kind |-> "<running>", msg |-> "", val |-> NoValue]

AwsDisabled == Err("Other", AwsDisabledMsg)

\* The encoder is handed the writer: the call goes on in the steps below.
Encoding(call, arg, used, writer) ==
    /\ ret' = [call |-> call, arg |-> arg, used |-> used, res |-> Running,
               io |-> <<>>, normalized |-> 0]
    /\ pc' = "encoding"
    /\ cw' = writer
    /\ calls' = <<>>
    /\ data' = finish_on_clone(data).handle

\* The call returns before an encoder runs.
Rejected(call, arg, used, res) ==
    /\ Returns(call, arg, used, res, <<>>, 0)
    /\ NoCloud
    /\ UNCHANGED data

\* The writer was built and is dropped unused.
RejectedBuilt(call, arg, used, res, writer) ==
    /\ Returns(call, arg, used, res, <<>>, 0)
    /\ pc' = "returned" /\ cw' = writer /\ calls' = <<>>
    /\ UNCHANGED data

df_to_csv_cloud ==
    /\ Idle("df_to_csv_cloud")
    /\ \E ex_entry \in S3Entries :
        LET cloud_writer == build_aws_s3_cloud_writer(ex_entry)
        IN  IF IsStub("df_to_csv_cloud")
            THEN Rejected("df_to_csv_cloud", None, "", AwsDisabled)
            ELSE IF ~cloud_writer.ok
            THEN Rejected("df_to_csv_cloud", None, "", cloud_writer)
            ELSE Encoding("df_to_csv_cloud", None, "", cloud_writer.val)
    /\ UNCHANGED fs /\ Frozen

df_to_parquet_cloud ==
    /\ Idle("df_to_parquet_cloud")
    /\ \E ex_entry \in S3Entries, ex_compression \in ParquetArgs :
        LET cloud_writer == build_aws_s3_cloud_writer(ex_entry)
            arg == ParquetArgName(ex_compression)
            compression == parquet_compression_try_from(ex_compression)
        IN  IF IsStub("df_to_parquet_cloud")
            THEN Rejected("df_to_parquet_cloud", arg, "", AwsDisabled)
            ELSE IF ~cloud_writer.ok
            THEN Rejected("df_to_parquet_cloud", arg, "", cloud_writer)
            ELSE IF ~compression.ok
            THEN RejectedBuilt("df_to_parquet_cloud", arg, "", compression,
                               cloud_writer.val)
            ELSE Encoding("df_to_parquet_cloud", arg, compression.val, cloud_writer.val)
    /\ UNCHANGED fs /\ Frozen

df_to_ipc_cloud ==
    /\ Idle("df_to_ipc_cloud")
    /\ \E ex_entry \in S3Entries, arg \in CompressionArgs :
        LET compression == ipc_compression_option(arg)
            cloud_writer == build_aws_s3_cloud_writer(ex_entry)
        IN  IF IsStub("df_to_ipc_cloud")
            THEN Rejected("df_to_ipc_cloud", arg, "", AwsDisabled)
            ELSE IF ~compression.ok
            THEN Rejected("df_to_ipc_cloud", arg, "", compression)
            ELSE IF ~cloud_writer.ok
            THEN Rejected("df_to_ipc_cloud", arg, compression.val, cloud_writer)
            ELSE Encoding("df_to_ipc_cloud", arg, compression.val, cloud_writer.val)
    /\ UNCHANGED fs /\ Frozen

df_to_ipc_stream_cloud ==
    /\ Idle("df_to_ipc_stream_cloud")
    /\ \E ex_entry \in S3Entries, arg \in CompressionArgs :
        LET compression == ipc_stream_compression_option(arg)
            cloud_writer == build_aws_s3_cloud_writer(ex_entry)
        IN  IF IsStub("df_to_ipc_stream_cloud")
            THEN Rejected("df_to_ipc_stream_cloud", arg, "", AwsDisabled)
            ELSE IF ~compression.ok
            THEN Rejected("df_to_ipc_stream_cloud", arg, "", compression)
            ELSE IF ~cloud_writer.ok
            THEN Rejected("df_to_ipc_stream_cloud", arg, compression.val, cloud_writer)
            ELSE Encoding("df_to_ipc_stream_cloud", arg, compression.val,
                          cloud_writer.val)
    /\ UNCHANGED fs /\ Frozen

df_to_ndjson_cloud ==
    /\ Idle("df_to_ndjson_cloud")
    /\ \E ex_entry \in S3Entries :
        LET cloud_writer == build_aws_s3_cloud_writer(ex_entry)
        IN  IF IsStub("df_to_ndjson_cloud")
            THEN Rejected("df_to_ndjson_cloud", None, "",
                          Err("Other", AwsNdjsonDisabledMsg))
            ELSE IF ~cloud_writer.ok
            THEN Rejected("df_to_ndjson_cloud", None, "", cloud_writer)
            ELSE Encoding("df_to_ndjson_cloud", None, "", cloud_writer.val)
    /\ UNCHANGED fs /\ Frozen

\* The steps of the encoder over the CloudWriter it was handed.

\* The call's Result is settled; the writer is dropped as the function exits.
ReturnsCloud(res) == ret' = [ret EXCEPT !.res = res] /\ pc' = "returned"

Still == UNCHANGED <<data, fs>> /\ Frozen

\* The encoder writes k more bytes. The first write starts the upload; a buffer
\* that reached the threshold leaves as one part.
EncoderWrite ==
    /\ pc = "encoding"
    /\ \E k \in 1..(MaxBytes - TotalWritten(cw)), start_ok \in BOOLEAN :
        LET first == ~cw.started
            started == IF first THEN cw_start(cw) ELSE cw
            w == cw_append(started, k)
            log == IF first
                   THEN Append(calls, StoreCall("create_multipart", started.upload_id,
                                                0, 0, <<>>, start_ok))
                   ELSE calls
        IN  /\ first \/ start_ok
            /\ IF first /\ ~start_ok
               THEN /\ ReturnsCloud(StoreError("create_multipart"))
                    /\ calls' = log
                    /\ UNCHANGED cw
               ELSE IF needs_flush(w)
               THEN /\ cw' = cw_issue_part(w)
                    /\ calls' = Append(log, StoreCall("put_part", w.upload_id,
                                                      Len(w.parts) + 1, w.buffer, <<>>, TRUE))
                    /\ pc' = "uploading"
                    /\ UNCHANGED ret
               ELSE /\ cw' = w
                    /\ calls' = log
                    /\ UNCHANGED <<pc, ret>>
    /\ Still

\* The part upload in flight returns: its tag, or a failure.
PartReturn ==
    /\ pc = "uploading"
    /\ \E ok \in BOOLEAN :
        IF ok
        THEN /\ cw' = cw_record_tag(cw, calls[Len(calls)].size)
             /\ pc' = IF cw.finalizing THEN "completing" ELSE "encoding"
             /\ UNCHANGED calls
        ELSE /\ cw' = [cw EXCEPT !.err = StoreError("put_part"), !.inflight = 0]
             /\ calls' = [calls EXCEPT ![Len(calls)].ok = FALSE]
             /\ pc' = "aborting"
    /\ UNCHANGED ret /\ Still

\* The encoder itself fails between writes; the writer is dropped on the error.
EncoderFails ==
    /\ pc = "encoding"
    /\ IF cw.started
       THEN /\ cw' = [cw EXCEPT !.err = PolarsError]
            /\ pc' = "aborting"
            /\ UNCHANGED ret
       ELSE /\ ReturnsCloud(PolarsError)
            /\ UNCHANGED cw
    /\ UNCHANGED calls /\ Still

\* finalize(): what is left in the buffer leaves as the last part.
Finalize ==
    /\ pc = "encoding"
    /\ IF ~cw.started
       THEN /\ ReturnsCloud(Ok(Unit))
            /\ UNCHANGED <<cw, calls>>
       ELSE /\ cw' = [cw_issue_part(cw) EXCEPT !.finalizing = TRUE]
            /\ calls' = Append(calls, StoreCall("put_part", cw.upload_id,
                                                Len(cw.parts) + 1, cw.buffer, <<>>, TRUE))
            /\ pc' = "uploading"
            /\ UNCHANGED ret
    /\ Still

\* finalize(), after the last part: the completion call.
Complete ==
    /\ pc = "completing"
    /\ \E ok \in BOOLEAN :
        /\ calls' = Append(calls, StoreCall("complete_multipart", cw.upload_id, 0, 0,
                                            completion_tags(cw), ok))
        /\ IF ok
           THEN ReturnsCloud(Ok(Unit)) /\ UNCHANGED cw
           ELSE /\ cw' = [cw EXCEPT !.err = StoreError("complete_multipart")]
                /\ pc' = "aborting"
                /\ UNCHANGED ret
    /\ Still

\* The best-effort abort after a failure; the original error is returned.
Abort ==
    /\ pc = "aborting"
    /\ \E abort_ok \in BOOLEAN :
        /\ calls' = Append(calls, StoreCall("abort_multipart", cw.upload_id, 0, 0,
                                            <<>>, abort_ok))
        /\ ReturnsCloud(abort_result(cw.err, abort_ok))
    /\ UNCHANGED cw /\ Still

\* The function exits: its CloudWriter goes out of scope.
DropWriter ==
    /\ pc = "returned"
    /\ pc' = "idle"
    /\ cw' = NoWriter
    /\ calls' = <<>>
    /\ UNCHANGED ret /\ Still

-----------------------------------------------------------------------------
(* The specifications. *)

NoResult == Err("<not called>", "")

NoEntry == [key |-> "", bucket |-> None, token |-> None, endpoint |-> ""]

Init ==
    /\ features \in [ndjson : BOOLEAN, aws : BOOLEAN]
    /\ data \in Frames
    /\ fs \in {f \in [Paths -> InitialFiles \cup {NoFile}] :
                    \A p \in Paths : ~DirExists(p) => f[p] = NoFile}
    /\ ret = NoCall
    /\ pc = "idle"
    /\ cw = NoWriter
    /\ calls = <<>>
    /\ pairs = <<>>
    /\ schema_result = NoResult
    /\ entry = NoEntry
    /\ built = NoResult

Next ==
    \/ df_from_csv \/ df_to_csv \/ df_to_csv_cloud \/ df_dump_csv \/ df_load_csv
    \/ df_from_parquet \/ df_to_parquet \/ df_to_parquet_cloud \/ df_dump_parquet
    \/ df_load_parquet
    \/ df_from_ipc \/ df_to_ipc \/ df_to_ipc_cloud \/ df_dump_ipc \/ df_load_ipc
    \/ df_from_ipc_stream \/ df_to_ipc_stream \/ df_to_ipc_stream_cloud
    \/ df_dump_ipc_stream \/ df_load_ipc_stream
    \/ df_from_ndjson \/ df_to_ndjson \/ df_to_ndjson_cloud \/ df_dump_ndjson
    \/ df_load_ndjson
    \/ EncoderWrite \/ PartReturn \/ EncoderFails \/ Finalize \/ Complete \/ Abort
    \/ DropWriter

Spec == Init /\ [][Next]_vars

\* schema_from_dtypes_pairs alone, over every list of up to MaxPairs pairs.
ColumnNames == {"x", "y"}

TypeNames == {"i64", "f64", "str", "frobnicate", "datatype"}

PairLists ==
    UNION {[1..n -> {Col(c, t) : c \in ColumnNames, t \in TypeNames}] : n \in 0..MaxPairs}

InitSchema ==
    /\ features = [ndjson |-> TRUE, aws |-> TRUE]
    /\ data = [cols |-> <<Col("x", "Float64")>>, chunks |-> 1]
    /\ fs \in [Paths -> {NoFile}]
    /\ ret = NoCall
    /\ pc = "idle"
    /\ cw = NoWriter
    /\ calls = <<>>
    /\ pairs = <<>>
    /\ schema_result = NoResult
    /\ entry = NoEntry
    /\ built = NoResult

ResolveSchema ==
    /\ schema_result = NoResult
    /\ \E dtypes \in PairLists :
        /\ pairs' = dtypes
        /\ schema_result' = schema_from_dtypes_pairs(dtypes)
    /\ UNCHANGED <<features, data, fs, ret, pc, cw, calls, entry, built>>

SpecSchema == InitSchema /\ [][ResolveSchema]_vars

\* build_aws_s3_cloud_writer alone, over target descriptors with and without a
\* bucket name and a session token.
Keys == {"k.out", "dir/k.out", "a/b/k.out"}

Buckets == {None, Some("my-bucket"), Some("other-bucket"),
            Some("explorer-default-bucket-name")}

Tokens == {None, Some("session-token"), Some("")}

Endpoints == {"http://localhost:9000", "https://my-bucket.s3.amazonaws.com", "not a url"}

Targets == [key : Keys, bucket : Buckets, token : Tokens, endpoint : Endpoints]

BuildWriter ==
    /\ built = NoResult
    /\ \E ex_entry \in Targets :
        /\ entry' = ex_entry
        /\ built' = build_aws_s3_cloud_writer(ex_entry)
    /\ UNCHANGED <<features, data, fs, ret, pc, cw, calls, pairs, schema_result>>

SpecWriter == InitSchema /\ [][BuildWriter]_vars

-----------------------------------------------------------------------------
(* Properties of the schema resolver (checked under SpecSchema). *)

\* C1: resolving pairs fails whenever a pair carries a type name outside the
\* recognised set, and the error's message contains that offending type name.
C1_UnknownTypeNameInMessage ==
    \A i \in 1..Len(pairs) :
        pairs[i].dtype \notin RecognisedTypeNames =>
            /\ ~schema_result.ok
            /\ (\A j \in 1..(i - 1) : pairs[j].dtype \in RecognisedTypeNames) =>
                    Contains(schema_result.msg, pairs[i].dtype)

FirstIndex(seq, name) ==
    CHOOSE i \in 1..Len(seq) :
        seq[i].name = name /\ \A j \in 1..(i - 1) : seq[j].name # name

LastIndex(seq, name) ==
    CHOOSE i \in 1..Len(seq) :
        seq[i].name = name /\ \A j \in (i + 1)..Len(seq) : seq[j].name # name

AllRecognised(seq) == \A i \in 1..Len(seq) : seq[i].dtype \in RecognisedTypeNames

\* C10: for pairs whose type names are all recognised the schema has exactly
\* one entry per distinct column name, the entries are ordered by the first
\* occurrence of their names, and each carries the dtype of its name's last
\* occurrence.
C10_SchemaFirstPositionLastType ==
    AllRecognised(pairs) /\ schema_result # NoResult =>
        /\ schema_result.ok
        /\ LET schema == schema_result.val
           IN  /\ {schema[i].name : i \in 1..Len(schema)}
                    = {pairs[i].name : i \in 1..Len(pairs)}
               /\ \A i, j \in 1..Len(schema) :
                    i < j => /\ schema[i].name # schema[j].name
                             /\ FirstIndex(pairs, schema[i].name)
                                    < FirstIndex(pairs, schema[j].name)
               /\ \A i \in 1..Len(schema) :
                    schema[i].dtype
                        = dtype_from_str(pairs[LastIndex(pairs, schema[i].name)].dtype).val

\* A name given twice with two dtypes, another name between the two.
C10_Witness ==
    /\ schema_result.ok
    /\ Len(pairs) = 3
    /\ pairs[1].name = pairs[3].name
    /\ pairs[1].name # pairs[2].name
    /\ pairs[1].dtype # pairs[3].dtype
    /\ Len(schema_result.val) = 2
    /\ schema_result.val[1].name = pairs[1].name

-----------------------------------------------------------------------------
(* Properties of the entry points (checked under Spec). *)

NdjsonForms == {"df_from_ndjson", "df_to_ndjson", "df_dump_ndjson", "df_load_ndjson"}

CloudWrites ==
    {"df_to_csv_cloud", "df_to_parquet_cloud", "df_to_ipc_cloud",
     "df_to_ipc_stream_cloud", "df_to_ndjson_cloud"}

\* The features an entry point needs.
Needs(name) ==
    [ndjson |-> name \in NdjsonForms \cup {"df_to_ndjson_cloud"},
     aws |-> name \in CloudWrites]

Lacking(name) ==
    \/ Needs(name).ndjson /\ ~features.ndjson
    \/ Needs(name).aws /\ ~features.aws

CapabilityDisabled(res) ==
    /\ ~res.ok
    /\ res.kind = "Other"
    /\ Contains(res.msg, "Explorer was compiled without the")

\* C2: in each of the four builds every ndjson form and every cloud write is
\* defined exactly once, and one whose feature is not built in returns a
\* capability-disabled error.
C2_EveryEntryPointDefinedOnce ==
    \A name \in NdjsonForms \cup CloudWrites :
        /\ Cardinality(Compiled(name, features)) = 1
        /\ Lacking(name) => IsStub(name)
        /\ Lacking(name) /\ ret.call = name => CapabilityDisabled(ret.res)

\* C3: without the "ndjson" feature the four ndjson forms return one and the
\* same capability-disabled error, make no file operation and leave every
\* file as it was.
C3_NdjsonDisabledUniform ==
    /\ [](~features.ndjson /\ ret.call \in NdjsonForms =>
            /\ ret.res = Err("Other", NdjsonDisabledMsg)
            /\ ret.io = <<>>)
    /\ [][~features.ndjson /\ ret'.call \in NdjsonForms => fs' = fs]_vars

C3_Witness ==
    /\ ~features.ndjson
    /\ ret.call = "df_from_ndjson"
    /\ ~ret.res.ok
    /\ fs["a.out"] # NoFile

IpcWrites == {"df_to_ipc", "df_to_ipc_cloud", "df_dump_ipc"}

IpcStreamWrites == {"df_to_ipc_stream", "df_to_ipc_stream_cloud", "df_dump_ipc_stream"}

\* The rejection of a compression name by the entry point's own variant:
\* nothing resolved, nothing written, no writer built, and an error that
\* names the algorithm and the variant.
RejectedAsUnsupported ==
    /\ ~ret.res.ok
    /\ ret.res.kind = "Other"
    /\ Contains(ret.res.msg, "the algorithm " \o ret.arg.v \o " is not supported")
    /\ ret.call \in IpcWrites =>
            ret.res.msg = "the algorithm " \o ret.arg.v
                            \o " is not supported for IPC compression"
    /\ ret.call \in IpcStreamWrites =>
            ret.res.msg = "the algorithm " \o ret.arg.v
                            \o " is not supported for IPC stream compression"
    /\ ret.used = ""
    /\ ret.io = <<>>
    /\ pc = "idle" /\ cw = NoWriter

UnknownCompression ==
    /\ ret.call \in IpcWrites \cup IpcStreamWrites
    /\ ret.arg.some
    /\ ret.arg.v \notin {"lz4", "zstd"}

\* C4 as stated: every IPC and IPC stream write, cloud write and dump rejects
\* a compression name outside its variant's set with an unsupported-option
\* error that names the algorithm.
C4_UnknownCompressionRejected == UnknownCompression => RejectedAsUnsupported

\* C4, amended: the same for the entry points the build has the feature for;
\* a cloud write of a build without "aws" returns the capability-disabled
\* error whatever the name. In no case is anything resolved or written, and a
\* name that is accepted resolves in the entry point's own enumeration.
C4_UnknownCompressionRejectedWhenBuilt ==
    /\ UnknownCompression =>
            IF Lacking(ret.call)
            THEN ret.res = AwsDisabled /\ ret.used = "" /\ ret.io = <<>> /\ cw = NoWriter
            ELSE RejectedAsUnsupported
    /\ ret.call \in IpcWrites =>
            ret.used \in {"", "None", "IpcCompression::LZ4", "IpcCompression::ZSTD"}
    /\ ret.call \in IpcStreamWrites =>
            ret.used \in {"", "None", "IpcStreamCompression::LZ4",
                          "IpcStreamCompression::ZSTD"}

C4_Witness ==
    /\ features.aws
    /\ ret.call = "df_to_ipc_cloud"
    /\ ret.arg = Some("gzip")
    /\ ~ret.res.ok

WritesAndDumps ==
    {"df_to_csv", "df_to_csv_cloud", "df_dump_csv",
     "df_to_parquet", "df_to_parquet_cloud", "df_dump_parquet",
     "df_to_ipc", "df_to_ipc_cloud", "df_dump_ipc",
     "df_to_ipc_stream", "df_to_ipc_stream_cloud", "df_dump_ipc_stream",
     "df_to_ndjson", "df_to_ndjson_cloud", "df_dump_ndjson"}

\* C5: no write or dump call, successful or failed, changes the dataframe
\* behind the handle it was given.
C5_HandleNeverMutated == [][data' = data]_vars

\* A write went through its encoder, and the handle still has its two chunks.
C5_Witness ==
    /\ ret.call = "df_to_parquet"
    /\ ret.res.ok
    /\ fs["a.out"].fmt = "parquet"
    /\ fs["a.out"].cols = data.cols
    /\ data.chunks = 2

ReadsAndLoads ==
    {"df_from_csv", "df_load_csv", "df_from_parquet", "df_load_parquet",
     "df_from_ipc", "df_load_ipc", "df_from_ipc_stream", "df_load_ipc_stream",
     "df_from_ndjson", "df_load_ndjson"}

\* C6: a read or load that succeeds returns a frame the normalizer passed over
\* exactly once, whose numeric columns are all Int64 or Float64; one that
\* fails returns its error and no frame.
C6_ReadsReturnNormalized ==
    ret.call \in ReadsAndLoads =>
        IF ret.res.ok
        THEN /\ ret.normalized = 1
             /\ \A i \in 1..Len(ret.res.val.cols) :
                    ret.res.val.cols[i].dtype \in NumericDTypes =>
                        ret.res.val.cols[i].dtype \in {"Int64", "Float64"}
        ELSE ret.res.val = NoValue /\ ret.normalized = 0

\* A file holding an Int32 column was read back as Int64.
C6_Witness ==
    /\ ret.call = "df_from_ipc"
    /\ ret.res.ok
    /\ fs["a.out"].cols[1].dtype = "Int32"
    /\ ret.res.val.cols[1].dtype = "Int64"

-----------------------------------------------------------------------------
(* Properties of the cloud writer (checked under Spec). *)

CallsOf(op) == SelectSeq(calls, LAMBDA c : c.op = op)

\* A cloud write has returned and its writer had started an upload.
SessionOver == pc = "returned" /\ cw.started

CeilDiv(n, p) == (n + p - 1) \div p

AllButLastReach(parts, p) == \A i \in 1..(Len(parts) - 1) : parts[i].size >= p

\* C7 as stated: writes totalling N bytes followed by finalize upload exactly
\* ceil(N / P) parts, every part but the last of at least P bytes.
C7_CeilParts ==
    SessionOver /\ ret.res.ok =>
        /\ Len(CallsOf("put_part")) = CeilDiv(cw.written, PartSize)
        /\ AllButLastReach(CallsOf("put_part"), PartSize)

\* C7, amended: the parts' sizes sum to N, every part but the last has at
\* least P bytes and the last has fewer than P, possibly none; so there are at
\* least one and at most floor(N / P) + 1 parts.
C7_PartsCoverWrites ==
    SessionOver /\ ret.res.ok =>
        LET parts == CallsOf("put_part")
        IN  /\ SumSizes(parts) = cw.written
            /\ AllButLastReach(parts, PartSize)
            /\ Len(parts) >= 1
            /\ parts[Len(parts)].size < PartSize
            /\ Len(parts) <= (cw.written \div PartSize) + 1
            /\ cw.parts = [i \in 1..Len(parts) |->
                                [num |-> parts[i].num, size |-> parts[i].size]]

\* Two writes of P bytes each: three parts, the last one empty.
C7_Witness ==
    /\ SessionOver /\ ret.res.ok
    /\ cw.written = 2 * PartSize
    /\ Len(CallsOf("put_part")) = 3
    /\ CallsOf("put_part")[3].size = 0

Ascending(parts) == \A i \in 1..Len(parts) : parts[i].num = i

\* C8: parts are uploaded one at a time in the order of their numbers, each
\* once; a part is issued only when every earlier part has returned its tag;
\* the completion call comes after every part has returned and lists the
\* recorded tags in ascending part-number order.
C8_SerialAscendingUploads ==
    LET puts == CallsOf("put_part")
    IN  /\ Ascending(puts)
        /\ Ascending(cw.parts)
        /\ Len(cw.parts) <= Len(puts)
        /\ Len(puts) <= Len(cw.parts) + 1
        /\ (pc = "uploading") = (cw.inflight # 0)
        /\ cw.inflight # 0 =>
                /\ cw.inflight = Len(puts)
                /\ Len(cw.parts) = Len(puts) - 1
                /\ calls[Len(calls)].op = "put_part"
        /\ \A i \in 1..Len(cw.parts) : puts[i].ok /\ puts[i].size = cw.parts[i].size
        /\ Len(CallsOf("complete_multipart")) <= 1
        /\ \A i \in 1..Len(calls) :
                calls[i].op = "complete_multipart" =>
                    /\ \A j \in 1..Len(calls) : calls[j].op = "put_part" => j < i
                    /\ Len(calls[i].tags) = Len(puts)
                    /\ Ascending(calls[i].tags)
                    /\ calls[i].tags = cw.parts
                    /\ \A j \in 1..Len(puts) : puts[j].ok

\* A completion call over three parts.
C8_Witness ==
    /\ Len(CallsOf("complete_multipart")) = 1
    /\ Len(CallsOf("complete_multipart")[1].tags) = 3

Aborts == CallsOf("abort_multipart")

\* The session was aborted: one abort call, with the session's upload id, as
\* the last store call, and the failure that led to it is what is returned.
AbortedWithOriginal ==
    /\ Len(Aborts) = 1
    /\ Aborts[1].id = cw.upload_id
    /\ calls[Len(calls)].op = "abort_multipart"
    /\ ~cw.err.ok
    /\ ret.res = cw.err

\* The session was completed: a completion call that succeeded, and no abort.
Completed ==
    /\ Len(CallsOf("complete_multipart")) = 1
    /\ CallsOf("complete_multipart")[1].ok
    /\ Len(Aborts) = 0

\* C9 as stated: when a part upload or finalize fails after the upload was
\* started, exactly one abort call with the session's upload id is made, no
\* completion call is ever issued, and the original error is returned even
\* when the abort fails; a started session ends completed or aborted.
C9_AbortNoCompletion ==
    SessionOver =>
        IF ret.res.ok
        THEN Completed
        ELSE AbortedWithOriginal /\ Len(CallsOf("complete_multipart")) = 0

\* C9, amended: as stated, except that a completion call may have been issued
\* when the failing step is the completion call itself; none succeeded.
C9_AbortAfterFailure ==
    SessionOver =>
        IF ret.res.ok
        THEN Completed
        ELSE /\ AbortedWithOriginal
             /\ \A i \in 1..Len(calls) :
                    calls[i].op = "complete_multipart" =>
                        /\ ~calls[i].ok
                        /\ cw.err = StoreError("complete_multipart")
                        /\ i = Len(calls) - 1
             /\ cw.err # StoreError("complete_multipart") =>
                    Len(CallsOf("complete_multipart")) = 0

\* The second part's upload failed and so did the abort: the part's failure
\* is what the call returned.
C9_Witness ==
    /\ SessionOver
    /\ Len(CallsOf("put_part")) = 2
    /\ ~CallsOf("put_part")[2].ok
    /\ Len(Aborts) = 1 /\ ~Aborts[1].ok
    /\ ret.res = StoreError("put_part")

-----------------------------------------------------------------------------
(* Properties of build_aws_s3_cloud_writer (checked under SpecWriter). *)

Placeholder == "explorer-default-bucket-name"

\* C11: building a cloud writer never fails because the bucket name is
\* absent: a target without a bucket name builds whenever the same target with
\* a bucket name does, with the placeholder bucket name and virtual-hosted-
\* style addressing; a bucket name that is present is used as it is, without
\* virtual-hosted-style addressing; the session token is passed on exactly
\* when it is present.
C11_AbsentBucketUsesPlaceholder ==
    built # NoResult =>
        /\ built.ok = build_aws_s3_cloud_writer([entry EXCEPT !.bucket = Some("my-bucket")]).ok
        /\ ~built.ok => ~Contains(built.msg, "Bucket")
        /\ built.ok =>
            LET store == built.val.store
            IN  /\ ~entry.bucket.some =>
                        /\ store.bucket_name = Placeholder
                        /\ store.virtual_hosted_style_request
                /\ entry.bucket.some =>
                        /\ store.bucket_name = entry.bucket.v
                        /\ ~store.virtual_hosted_style_request
                /\ store.token.some = entry.token.some
                /\ entry.token.some => store.token.v = entry.token.v
                /\ built.val.path = entry.key
                /\ ~built.val.started

\* A writer built for a target with a session token and no bucket name.
C11_Witness ==
    /\ built.ok
    /\ ~entry.bucket.some
    /\ entry.token = Some("session-token")
    /\ built.val.store.bucket_name = Placeholder

-----------------------------------------------------------------------------
(* Properties of the options of the entry points (checked under Spec). *)

CsvReads == {"df_from_csv", "df_load_csv"}

CsvEncodingNames == {"utf8", "utf8-lossy"}

\* C12: df_from_csv and df_load_csv accept the encoding option only when it
\* names strict or lossy UTF-8; a call given any other encoding name returns
\* an error and is not carried out as a strict UTF-8 read.
C12_UnknownEncodingRejected ==
    ret.call \in CsvReads /\ ret.arg.some /\ ret.arg.v \notin CsvEncodingNames =>
        ~ret.res.ok

CompressionWrites ==
    {"df_to_parquet", "df_to_ipc", "df_to_ipc_stream",
     "df_to_parquet_cloud", "df_to_ipc_cloud", "df_to_ipc_stream_cloud"}

\* The error of a compression option that did not resolve.
CompressionRejected(r) ==
    /\ r.call \in CompressionWrites
    /\ ~r.res.ok
    /\ r.res.kind = "Other"
    /\ \/ Contains(r.res.msg, "is not supported for IPC")
       \/ r.res = parquet_compression_try_from([algo |-> "Zstd", level_ok |-> FALSE])

\* C13: a write call whose compression option does not resolve fails before
\* it touches its destination: it creates or truncates no file, makes no file
\* operation, builds no cloud writer and starts no upload.
C13_RejectedBeforeDestination ==
    [][pc = "idle" /\ CompressionRejected(ret') =>
            /\ fs' = fs
            /\ ret'.io = <<>>
            /\ cw' = NoWriter
            /\ calls' = <<>>]_vars

====
